---- MODULE Spec2Model ----
(***************************************************************************)
(* Word registry, corpus model, stem trie and search of word_tree_search.  *)
(*                                                                         *)
(* Objects live in heaps indexed by allocation order: `articles' and       *)
(* `sentences' are sequences, a reference to an Article or a Sentence is   *)
(* its index.  A Word object carries the allocation number `id'; a         *)
(* reference to a Word is that number.  A word (token, stem) is a sequence *)
(* of one-character strings, a sentence text is the sequence of its        *)
(* space-separated words, an article text is the sequence of its           *)
(* sentences.                                                              *)
(***************************************************************************)
EXTENDS Naturals, Sequences, FiniteSets

VARIABLES
    words,         \* WordSingleton._words: stem -> Word object
    nextId,        \* number of Word objects allocated so far
    calls,         \* history: <<stem, form>> -> number of Word(...) calls made
    articles,      \* the Article objects, in construction order
    sentences,     \* the Sentence objects, in construction order
    todo,          \* the words the running Sentence constructor still has to visit
    building,      \* TRUE while an Article constructor is running
    tree,          \* WordTree nodes: path -> Node; the empty function before the build
    stems_at_build,\* history: the stems of the registry when the tree was built
    query,         \* the last argument of WordTree.search
    result,        \* what that call returned or raised
    tpc,           \* position of WordTree.traverse: off, input, loop, done, raised
    char,          \* traverse's local `char'
    current_node,  \* traverse's local `current_node' (a path)
    signal         \* what the last traverse step printed

vars == <<words, nextId, calls, articles, sentences, todo, building, tree,
          stems_at_build, query, result, tpc, char, current_node, signal>>

---------------------------------------------------------------------------
\* Bounds of the model.
MaxArticles == 2
MaxTokens == 2

\* Romanised stand-ins for the letters of the corpus.
Vowels == {"a", "i", "o", "y"}

oliva == <<"o", "l", "i", "v", "a">>
olivy == <<"o", "l", "i", "v", "y">>
oliv == <<"o", "l", "i", "v">>
ova == <<"o", "v", "a">>
ol == <<"o", "l">>
i_ == <<"i">>

\* The surface words sentences are made of.
Tokens == {oliva, olivy, oliv, ova, i_}

\* nltk's stop-word list, cut to the vocabulary.
STOPWORDS == {i_}

Titles == {"T1", "T2"}
Authors == {<<"A. A. Ivanov">>}

---------------------------------------------------------------------------
\* Sequence helpers.
Range(s) == {s[k] : k \in 1..Len(s)}

DropLast(w, n) == SubSeq(w, 1, Len(w) - n)

---------------------------------------------------------------------------
(* SnowballStemmer('russian').stem, the part of it the vocabulary reaches:  *)
(* RV is the region after the first vowel; step 1 removes, inside RV, a     *)
(* perfective-gerund ending (here "iv") or else a noun ending (here "a",    *)
(* "y", "i"); step 2 removes a final "i" inside RV.                         *)
RVStart(w) ==
    LET vs == {k \in 1..Len(w) : w[k] \in Vowels}
    IN  IF vs = {} THEN Len(w) + 1
        ELSE (CHOOSE k \in vs : \A j \in vs : k <= j) + 1

EndsInRV(w, suf) ==
    /\ Len(w) >= Len(suf)
    /\ SubSeq(w, Len(w) - Len(suf) + 1, Len(w)) = suf
    /\ Len(w) - Len(suf) + 1 >= RVStart(w)

StemStep1(w) ==
    IF EndsInRV(w, <<"i", "v">>) THEN DropLast(w, 2)
    ELSE IF \E e \in {"a", "y", "i"} : EndsInRV(w, <<e>>) THEN DropLast(w, 1)
    ELSE w

stem(w) ==
    LET w1 == StemStep1(w)
    IN  IF EndsInRV(w1, <<"i">>) THEN DropLast(w1, 1) ELSE w1

---------------------------------------------------------------------------
(* Word.forms is a dict: insertion-ordered, keys unique.  It is modelled as *)
(* a sequence of entries [form, sentences].                                 *)
FormKeys(forms) == {forms[k].form : k \in 1..Len(forms)}

FormIndex(forms, f) == CHOOSE k \in 1..Len(forms) : forms[k].form = f

FormGet(forms, f) == forms[FormIndex(forms, f)].sentences

\* Word.__init__
NewWord(id, stm, word_form, sentence) ==
    [id |-> id, stem |-> stm,
     forms |-> <<[form |-> word_form, sentences |-> <<sentence>>]>>,
     count |-> 0 + 1]

\* Faulty variant, for mutation analysis: the sentence is appended only when the form does not list it yet.
AppendFormAndSentenceDedup(w, word_form, sentence) ==
    LET forms1 ==
            IF word_form \in FormKeys(w.forms)
            THEN [w.forms EXCEPT ![FormIndex(w.forms, word_form)].sentences =
                      IF sentence \in Range(@) THEN @ ELSE Append(@, sentence)]
            ELSE Append(w.forms, [form |-> word_form, sentences |-> <<sentence>>])
    IN  [w EXCEPT !.forms = forms1, !.count = @ + 1]

\* WordSingleton.__append_form_and_sentence, on the Word object w.
AppendFormAndSentence(w, word_form, sentence) ==
    LET forms1 ==
            IF word_form \in FormKeys(w.forms)
            THEN [w.forms EXCEPT ![FormIndex(w.forms, word_form)].sentences =
                                      Append(@, sentence)]
            ELSE Append(w.forms, [form |-> word_form, sentences |-> <<sentence>>])
    IN  [w EXCEPT !.forms = forms1, !.count = @ + 1]

\* Faulty variant, for mutation analysis: no singleton test, every call constructs a Word.
WordCallAlwaysNew(reg, id, stm, word_form, sentence) ==
    [s \in DOMAIN reg \cup {stm} |->
        IF s = stm THEN NewWord(id, stm, word_form, sentence) ELSE reg[s]]

\* WordSingleton.__call__: the registry after Word(stm, word_form, sentence).
WordCall(reg, id, stm, word_form, sentence) ==
    IF stm \in DOMAIN reg
    THEN [reg EXCEPT ![stm] = AppendFormAndSentence(reg[stm], word_form, sentence)]
    ELSE [s \in DOMAIN reg \cup {stm} |->
              IF s = stm THEN NewWord(id, stm, word_form, sentence) ELSE reg[s]]

---------------------------------------------------------------------------
(* WordTree.  A Node is identified by the path of characters from the root: *)
(* the child of node p under character c is the node Append(p, c).          *)
root == <<>>
NoNode == <<"None">>
NoWord == 0

\* Node(char, parent): children and word take their defaults.
Node(c, parent) ==
    [char |-> c, parent |-> parent, children |-> <<>>, word |-> NoWord]

\* Python's order on strings: by code point, a proper prefix first.
Alphabet == <<"a", "i", "l", "o", "v", "y">>

Ord(c) == CHOOSE k \in 1..Len(Alphabet) : Alphabet[k] = c

RECURSIVE StrLess(_, _)
StrLess(a, b) ==
    IF b = <<>> THEN FALSE
    ELSE IF a = <<>> THEN TRUE
    ELSE IF a[1] = b[1] THEN StrLess(Tail(a), Tail(b))
    ELSE Ord(a[1]) < Ord(b[1])

\* list(sorted(list(Word.words.keys())))
RECURSIVE Sorted(_)
Sorted(S) ==
    IF S = {} THEN <<>>
    ELSE LET m == CHOOSE x \in S : \A y \in S \ {x} : StrLess(x, y)
         IN  <<m>> \o Sorted(S \ {m})

\* Faulty variant, for mutation analysis: a new child replaces the children of its parent.
RECURSIVE WalkOrCreateOverwrite(_, _, _, _)
WalkOrCreateOverwrite(nodes, stm, k, cur) ==
    IF k > Len(stm) THEN [nodes |-> nodes, node |-> cur]
    ELSE LET c == stm[k]
             child == Append(cur, c)
         IN  IF c \in Range(nodes[cur].children)
             THEN WalkOrCreateOverwrite(nodes, stm, k + 1, child)
             ELSE WalkOrCreateOverwrite(
                    [p \in DOMAIN nodes \cup {child} |->
                        IF p = child THEN Node(c, cur)
                        ELSE IF p = cur
                             THEN [nodes[cur] EXCEPT !.children = <<c>>]
                             ELSE nodes[p]],
                    stm, k + 1, child)

\* The inner loop of WordTree.__build from character k of stm on, standing
\* at node cur: the nodes afterwards and the node the walk ends at.
RECURSIVE WalkOrCreate(_, _, _, _)
WalkOrCreate(nodes, stm, k, cur) ==
    IF k > Len(stm) THEN [nodes |-> nodes, node |-> cur]
    ELSE LET c == stm[k]
             child == Append(cur, c)
         IN  IF c \in Range(nodes[cur].children)
             THEN WalkOrCreate(nodes, stm, k + 1, child)
             ELSE WalkOrCreate(
                    [p \in DOMAIN nodes \cup {child} |->
                        IF p = child THEN Node(c, cur)
                        ELSE IF p = cur
                             THEN [nodes[cur] EXCEPT !.children = Append(@, c)]
                             ELSE nodes[p]],
                    stm, k + 1, child)

\* One turn of the outer loop of WordTree.__build.
InsertStem(nodes, reg, stm) ==
    LET r == WalkOrCreate(nodes, stm, 1, root)
    IN  [r.nodes EXCEPT ![r.node].word = reg[stm].id]

RECURSIVE BuildLoop(_, _, _)
BuildLoop(nodes, reg, stems) ==
    IF stems = <<>> THEN nodes
    ELSE BuildLoop(InsertStem(nodes, reg, stems[1]), reg, Tail(stems))

\* WordTree.__post_init__ and __build: the nodes of the tree built over reg.
build(reg) ==
    BuildLoop([p \in {root} |-> Node("", NoNode)], reg, Sorted(DOMAIN reg))

\* The Word object a reference points to.
Deref(reg, id) == reg[CHOOSE s \in DOMAIN reg : reg[s].id = id]

\* What a call returns or raises.
Returned(v) == [exc |-> "None", value |-> v]
Raised(e) == [exc |-> e, value |-> <<>>]

\* The walk of WordTree.search: the node reached from the root along stm,
\* NoNode when a character is missing.
RECURSIVE Descend(_, _, _, _)
Descend(nodes, stm, k, cur) ==
    IF k > Len(stm) THEN cur
    ELSE IF stm[k] \in Range(nodes[cur].children)
         THEN Descend(nodes, stm, k + 1, Append(cur, stm[k]))
         ELSE NoNode

\* The two loops that end WordTree.search: every sentence of every form.
RECURSIVE Flatten(_)
Flatten(forms) ==
    IF forms = <<>> THEN <<>> ELSE forms[1].sentences \o Flatten(Tail(forms))

\* Faulty variant, for mutation analysis: the word is looked up as typed, without stemming.
SearchWordUnstemmed(nodes, reg, word) ==
    LET n == Descend(nodes, word, 1, root)
    IN  IF n = NoNode THEN <<>>
        ELSE IF nodes[n].word = NoWord THEN <<>>
        ELSE Flatten(Deref(reg, nodes[n].word).forms)

\* Faulty variant, for mutation analysis: the stem is looked up in the registry, not in the tree.
SearchWordInRegistry(nodes, reg, word) ==
    IF stem(word) \in DOMAIN reg THEN Flatten(reg[stem(word)].forms) ELSE <<>>

\* WordTree.search for a word without a space.
SearchWord(nodes, reg, word) ==
    LET n == Descend(nodes, stem(word), 1, root)
    IN  IF n = NoNode THEN <<>>
        ELSE IF nodes[n].word = NoWord THEN <<>>
        ELSE Flatten(Deref(reg, nodes[n].word).forms)

\* Sentence is a dataclass with eq and without frozen: its __hash__ is None.
SentenceHashable == FALSE

\* WordTree.__is_next_to_each_other; sentence.text.split(' ') is the text.
is_next_to_each_other(ws, text) ==
    LET stems == [k \in 1..Len(ws) |-> stem(ws[k])]
        sentence_stems == [k \in 1..Len(text) |-> stem(text[k])]
    IN  \E j \in 0..(Len(sentence_stems) - Len(stems)) :
            stems = SubSeq(sentence_stems, j + 1, j + Len(stems))

\* The first loop of __search_by_phrase from word k on; sets holds the
\* sets collected so far.
RECURSIVE PhraseLoop(_, _, _, _, _)
PhraseLoop(nodes, reg, ws, k, sets) ==
    IF k > Len(ws) THEN Returned(sets)
    ELSE LET found == SearchWord(nodes, reg, ws[k])
         IN  IF found = <<>> THEN Returned(<<>>)
             ELSE IF ~SentenceHashable THEN Raised("TypeError")
             ELSE PhraseLoop(nodes, reg, ws, k + 1, Append(sets, Range(found)))

\* A set in some iteration order.
RECURSIVE AsList(_)
AsList(S) ==
    IF S = {} THEN <<>>
    ELSE LET x == CHOOSE y \in S : TRUE IN <<x>> \o AsList(S \ {x})

\* WordTree.__search_by_phrase; ws is phrase.split(' ').
search_by_phrase(nodes, reg, sents, ws) ==
    LET r == PhraseLoop(nodes, reg, ws, 1, <<>>)
    IN  IF r.exc # "None" \/ r.value = <<>> THEN r
        ELSE LET sentences_with_all_words ==
                     {s \in r.value[1] : \A k \in 2..Len(r.value) : s \in r.value[k]}
             IN  Returned(AsList({s \in sentences_with_all_words :
                                      is_next_to_each_other(ws, sents[s].text)}))

\* WordTree.search; q is the argument split at its spaces.
search(nodes, reg, sents, q) ==
    IF Len(q) > 1 THEN search_by_phrase(nodes, reg, sents, q)
    ELSE Returned(SearchWord(nodes, reg, q[1]))

---------------------------------------------------------------------------
(* Word.articles.  Article defines __hash__ over (title, authors) and keeps *)
(* the __eq__ its dataclass generates, which compares authors, title, text  *)
(* and sentences in turn; Sentence keeps the generated __eq__ over article, *)
(* text and words.  A comparison yields "True", "False" or, when it never   *)
(* reaches a base case, "RecursionError".                                   *)
ArticleHash(arts, a) == <<arts[a].title, arts[a].authors>>

\* a == b for Article objects, as the operand pair of a container lookup:
\* identity first, then Article.__eq__.
ArticleEq(arts, a, b) ==
    IF a = b THEN "True"
    ELSE IF arts[a].authors # arts[b].authors THEN "False"
    ELSE IF arts[a].title # arts[b].title THEN "False"
    ELSE IF arts[a].text # arts[b].text THEN "False"
    ELSE IF Len(arts[a].sentences) # Len(arts[b].sentences) THEN "False"
    ELSE IF arts[a].sentences = <<>> THEN "True"
    ELSE "RecursionError"

\* s == t for Sentence objects of a list: identity first, then Sentence.__eq__.
SentenceEq(arts, sents, s, t) ==
    IF s = t THEN "True"
    ELSE LET ae == ArticleEq(arts, sents[s].article, sents[t].article)
         IN  IF ae # "True" THEN ae
             ELSE IF sents[s].text # sents[t].text THEN "False"
             ELSE IF sents[s].words # sents[t].words THEN "False"
             ELSE "True"

\* `sentence in list': "True", "False" or "RecursionError".
RECURSIVE SentenceIn(_, _, _, _)
SentenceIn(arts, sents, s, list) ==
    IF list = <<>> THEN "False"
    ELSE LET e == SentenceEq(arts, sents, list[1], s)
         IN  IF e = "False" THEN SentenceIn(arts, sents, s, Tail(list)) ELSE e

\* The dict lookup of key a among the entries of view from entry k on: only
\* keys of equal hash are compared; returns the index of the entry found
\* (0 for none) or raises what the comparison raises.
RECURSIVE KeyIndex(_, _, _, _)
KeyIndex(arts, view, a, k) ==
    IF k > Len(view) THEN Returned(0)
    ELSE IF ArticleHash(arts, view[k].article) # ArticleHash(arts, a)
         THEN KeyIndex(arts, view, a, k + 1)
         ELSE LET e == ArticleEq(arts, view[k].article, a)
              IN  IF e = "True" THEN Returned(k)
                  ELSE IF e = "False" THEN KeyIndex(arts, view, a, k + 1)
                  ELSE Raised(e)

\* The body of the inner loop of Word.articles for one (form, sentence).
AddToView(arts, sents, view, form, s) ==
    LET a == sents[s].article
        found == KeyIndex(arts, view, a, 1)
    IN  IF found.exc # "None" THEN found
        ELSE IF found.value = 0
        THEN Returned(Append(view,
                 [article |-> a,
                  forms |-> <<[form |-> form, sentences |-> <<s>>]>>]))
        ELSE LET k == found.value
                 fs == view[k].forms
             IN  IF form \in FormKeys(fs)
                 THEN LET j == FormIndex(fs, form)
                          isin == SentenceIn(arts, sents, s, fs[j].sentences)
                      IN  IF isin = "False"
                          THEN Returned([view EXCEPT
                                   ![k].forms[j].sentences = Append(@, s)])
                          ELSE IF isin = "True" THEN Returned(view)
                          ELSE Raised(isin)
                 ELSE Returned([view EXCEPT ![k].forms =
                          Append(@, [form |-> form, sentences |-> <<s>>])])

\* The (form, sentence) pairs in the order the two loops visit them.
RECURSIVE FormPairs(_)
FormPairs(forms) ==
    IF forms = <<>> THEN <<>>
    ELSE [k \in 1..Len(forms[1].sentences) |->
              <<forms[1].form, forms[1].sentences[k]>>] \o FormPairs(Tail(forms))

RECURSIVE ViewLoop(_, _, _, _)
ViewLoop(arts, sents, view, pairs) ==
    IF pairs = <<>> THEN Returned(view)
    ELSE LET r == AddToView(arts, sents, view, pairs[1][1], pairs[1][2])
         IN  IF r.exc # "None" THEN r
             ELSE ViewLoop(arts, sents, r.value, Tail(pairs))

\* Word.articles of the Word object w: the dict as a sequence of entries
\* [article, forms], or the exception raised.
Articles(arts, sents, w) == ViewLoop(arts, sents, <<>>, FormPairs(w.forms))

---------------------------------------------------------------------------
\* All article texts of at most n words: non-empty sequences of non-empty
\* sentences over Tokens.
RECURSIVE TextsUpTo(_)
TextsUpTo(n) ==
    IF n = 0 THEN {}
    ELSE LET shorter == TextsUpTo(n - 1)
         IN  {<<<<x>>>> : x \in Tokens} \cup shorter
               \cup {Append(t, <<x>>) : t \in shorter, x \in Tokens}
               \cup {[t EXCEPT ![Len(t)] = Append(@, x)] : t \in shorter, x \in Tokens}

RECURSIVE TextSize(_)
TextSize(text) == IF text = <<>> THEN 0 ELSE Len(text[1]) + TextSize(Tail(text))

RECURSIVE WordsIngested(_)
WordsIngested(arts) ==
    IF arts = <<>> THEN 0 ELSE TextSize(arts[1].text) + WordsIngested(Tail(arts))

\* words = [word for word in words if word not in STOPWORDS]
RECURSIVE DropStopwords(_)
DropStopwords(ws) ==
    IF ws = <<>> THEN <<>>
    ELSE IF ws[1] \in STOPWORDS THEN DropStopwords(Tail(ws))
    ELSE <<ws[1]>> \o DropStopwords(Tail(ws))

NoWords == [s \in {} |-> 0]
NoTree == [p \in {} |-> 0]

\* The arguments search is called with, split at their spaces.
Queries ==
    {<<oliva>>, <<oliv>>, <<ol>>, <<i_>>,
     <<oliva, oliv>>, <<i_, oliva>>}

NoCall == [exc |-> "NoCall", value |-> <<>>]

Init ==
    /\ words = NoWords
    /\ nextId = 0
    /\ calls = [p \in {} |-> 0]
    /\ articles = <<>>
    /\ sentences = <<>>
    /\ todo = <<>>
    /\ building = FALSE
    /\ tree = NoTree
    /\ stems_at_build = {}
    /\ query = <<>>
    /\ result = NoCall
    /\ tpc = "off"
    /\ char = ""
    /\ current_node = <<>>
    /\ signal = ""

\* No constructor is running and no interactive loop holds the thread.
Idle == ~building /\ tpc \in {"off", "done", "raised"}

\* Article.sentences.append(Sentence(...)) of the sentence object sid, and
\* the return of Article.__post_init__ when that was the last sentence.
FinishSentence(arts, sid) ==
    [arts EXCEPT ![Len(arts)].sentences = Append(@, sid)]

ArticleDone(arts) == Len(arts[Len(arts)].sentences) = Len(arts[Len(arts)].text)

\* Article(authors, title, text): the constructor starts; title and text are
\* the values its normalisation leaves, the text already split by sent_tokenize.
ArticleInit(authors, title, text) ==
    /\ Idle
    /\ Len(articles) < MaxArticles
    /\ WordsIngested(articles) + TextSize(text) <= MaxTokens
    /\ articles' = Append(articles,
            [authors |-> authors, title |-> title, text |-> text, sentences |-> <<>>])
    /\ building' = TRUE
    /\ query' = <<>>
    /\ result' = NoCall
    /\ UNCHANGED <<words, nextId, calls, sentences, todo, tree, stems_at_build,
                   tpc, char, current_node, signal>>

\* Article.__split_into_sentences reaches its next sentence: Sentence(self,
\* sentence) preprocesses the text and drops the stop words; with no word
\* left the Sentence is complete at once.
SentenceInit ==
    /\ building
    /\ todo = <<>>
    /\ LET a == Len(articles)
           text == articles[a].text[Len(articles[a].sentences) + 1]
           ws == DropStopwords(text)
           sid == Len(sentences) + 1
       IN  /\ sentences' = Append(sentences,
                   [article |-> a, text |-> text, words |-> <<>>])
           /\ todo' = ws
           /\ IF ws = <<>>
              THEN /\ articles' = FinishSentence(articles, sid)
                   /\ building' = ~ArticleDone(articles')
              ELSE UNCHANGED <<articles, building>>
    /\ UNCHANGED <<words, nextId, calls, tree, stems_at_build, query, result, tpc, char,
                   current_node, signal>>

\* One turn of the loop of Sentence.__split_sentence_into_words:
\* word = Word(stemmer.stem(word), word, self), then the append to self.words.
SplitSentenceStep ==
    /\ building
    /\ todo # <<>>
    /\ LET word == todo[1]
           stm == stem(word)
           sid == Len(sentences)
           w == words'[stm]
       IN  /\ words' = WordCall(words, nextId + 1, stm, word, sid)
           /\ nextId' = IF w.id > nextId THEN nextId + 1 ELSE nextId
           /\ calls' = [p \in DOMAIN calls \cup {<<stm, word>>} |->
                           IF p = <<stm, word>>
                           THEN (IF p \in DOMAIN calls THEN calls[p] ELSE 0) + 1
                           ELSE calls[p]]
           /\ sentences' = [sentences EXCEPT ![sid].words =
                               IF w.id \in Range(@) THEN @ ELSE Append(@, w.id)]
           /\ todo' = Tail(todo)
           /\ IF Tail(todo) = <<>>
              THEN /\ articles' = FinishSentence(articles, sid)
                   /\ building' = ~ArticleDone(articles')
              ELSE UNCHANGED <<articles, building>>
    /\ UNCHANGED <<tree, stems_at_build, query, result, tpc, char, current_node,
                   signal>>

\* WordTree(articles): the tree is built over the registry as it stands.
Build ==
    /\ Idle
    /\ tree = NoTree
    /\ stems_at_build = {}
    /\ tree' = build(words)
    /\ stems_at_build' = DOMAIN words
    /\ query' = <<>>
    /\ result' = NoCall
    /\ UNCHANGED <<words, nextId, calls, articles, sentences, todo, building,
                   tpc, char, current_node, signal>>

\* tree.search(q)
Search(q) ==
    /\ Idle
    /\ tree # NoTree
    /\ query' = q
    /\ result' = search(tree, words, sentences, q)
    /\ UNCHANGED <<words, nextId, calls, articles, sentences, todo, building,
                   tree, stems_at_build, tpc, char, current_node, signal>>

\* The commands typed at traverse's prompts.
Commands == {"up", "exit", "o", "l", "i", "v"}

\* tree.traverse() up to its first prompt.
TraverseStart ==
    /\ Idle
    /\ tree # NoTree
    /\ current_node' = root
    /\ signal' = "Children"
    /\ char' = ""
    /\ tpc' = "input"
    /\ query' = <<>>
    /\ result' = NoCall
    /\ UNCHANGED <<words, nextId, calls, articles, sentences, todo, building,
                   tree, stems_at_build>>

\* char = input(...)
Input(c) ==
    /\ tpc = "input"
    /\ char' = c
    /\ tpc' = "loop"
    /\ UNCHANGED <<words, nextId, calls, articles, sentences, todo, building,
                   tree, stems_at_build, query, result, current_node, signal>>

\* Descending onto a node without children prints its word's articles.
LeafRaises(n) ==
    /\ tree[n].children = <<>>
    /\ Articles(articles, sentences, Deref(words, tree[n].word)).exc # "None"

\* The test of the while loop and one turn of its body, up to the next prompt
\* if the turn reaches one.
LoopStep ==
    /\ tpc = "loop"
    /\ IF char = "exit"
       THEN /\ tpc' = "done"
            /\ char' = ""
            /\ current_node' = root
            /\ signal' = ""
       ELSE IF char = "up"
       THEN /\ IF tree[current_node].parent = NoNode
               THEN signal' = "At root node." /\ current_node' = current_node
               ELSE signal' = "" /\ current_node' = tree[current_node].parent
            /\ UNCHANGED <<tpc, char>>
       ELSE IF char \in Range(tree[current_node].children)
       THEN /\ current_node' = Append(current_node, char)
            /\ signal' = "Children"
            /\ tpc' = IF LeafRaises(current_node') THEN "raised" ELSE "input"
            /\ char' = char
       ELSE /\ signal' = "Not found."
            /\ tpc' = "input"
            /\ UNCHANGED <<char, current_node>>
    /\ UNCHANGED <<words, nextId, calls, articles, sentences, todo, building,
                   tree, stems_at_build, query, result>>

Ingest ==
    \/ \E au \in Authors, ti \in Titles,
          tx \in TextsUpTo(MaxTokens - WordsIngested(articles)) :
            ArticleInit(au, ti, tx)
    \/ SentenceInit
    \/ SplitSentenceStep

Next ==
    \/ Ingest
    \/ Build
    \/ \E q \in Queries : Search(q)

Spec == Init /\ [][Next]_vars

NextTraverse ==
    \/ Ingest
    \/ Build
    \/ TraverseStart
    \/ \E c \in Commands : Input(c)
    \/ LoopStep

SpecTraverse == Init /\ [][NextTraverse]_vars

---------------------------------------------------------------------------
\* Properties.

\* The number of Word(...) calls made with stem s.
RECURSIVE CallsOf(_, _)
CallsOf(s, pairs) ==
    IF pairs = {} THEN 0
    ELSE LET p == CHOOSE x \in pairs : TRUE
         IN  (IF p[1] = s THEN calls[p] ELSE 0) + CallsOf(s, pairs \ {p})

RegistryIsSingleton ==
    /\ DOMAIN words = {p[1] : p \in DOMAIN calls}
    /\ \A s \in DOMAIN words : words[s].stem = s /\ words[s].id \in 1..nextId
    /\ \A s, t \in DOMAIN words : words[s].id = words[t].id => s = t
    /\ nextId = Cardinality(DOMAIN words)
    /\ \A k \in 1..Len(sentences) : \A id \in Range(sentences[k].words) :
           \E s \in DOMAIN words : words[s].id = id

WordsAreKept ==
    \A s \in DOMAIN words : s \in DOMAIN words' /\ words'[s].id = words[s].id

\* C1: the registry holds exactly one Word per distinct stem ever passed to
\* Word(...), every reference a Sentence got back denotes a registered Word,
\* and no step removes a Word or puts another object in its place.
C1_OneWordPerStem == []RegistryIsSingleton /\ [][WordsAreKept]_vars

\* C1 witness: a call was made for a stem that was registered already.
C1_Witness == \E s \in DOMAIN words : words[s].count >= 2

\* C2: for every stem and form, forms[form] is as long as the number of calls
\* made with that (stem, form) pair, the forms are those passed, and count is
\* the number of calls made with that stem.
C2_CountsMatchCalls ==
    \A s \in DOMAIN words :
        /\ words[s].count = CallsOf(s, DOMAIN calls)
        /\ FormKeys(words[s].forms) = {p[2] : p \in {x \in DOMAIN calls : x[1] = s}}
        /\ \A k \in 1..Len(words[s].forms) :
               /\ Len(words[s].forms[k].sentences) = calls[<<s, words[s].forms[k].form>>]
               /\ \A j \in 1..Len(words[s].forms) :
                      words[s].forms[j].form = words[s].forms[k].form => j = k

\* C2 witness: the same (stem, form, sentence) triple was passed twice.
C2_Witness ==
    \E s \in DOMAIN words : \E k \in 1..Len(words[s].forms) :
        \E a, b \in 1..Len(words[s].forms[k].sentences) :
            a # b /\ words[s].forms[k].sentences[a] = words[s].forms[k].sentences[b]

\* The words a lookup is tried on: the vocabulary and every prefix of it.
LookupInputs ==
    UNION {{SubSeq(w, 1, n) : n \in 0..Len(w)} : w \in Tokens}

NoDuplicates(list) ==
    \A a, b \in 1..Len(list) : list[a] = list[b] => a = b

\* C3 as claimed: looking up a stem that was registered at build time
\* returns the sentences of the Word registered under that stem.
C3_Original ==
    tree # NoTree =>
        \A s \in stems_at_build :
            /\ SearchWord(tree, words, s) = Flatten(words[s].forms)
            /\ SearchWord(tree, words, s) # <<>>

\* C3 amended: looking up a stem s registered at build time looks up stem(s):
\* it returns the sentences of the Word registered under s when stemming
\* leaves s unchanged, else those of the Word registered at build time under
\* stem(s), or nothing when there is none.
C3_LookupOfStem ==
    tree # NoTree =>
        \A s \in stems_at_build :
            /\ stem(s) = s =>
                   /\ SearchWord(tree, words, s) = Flatten(words[s].forms)
                   /\ SearchWord(tree, words, s) # <<>>
            /\ (stem(s) # s /\ stem(s) \in stems_at_build) =>
                   SearchWord(tree, words, s) = Flatten(words[stem(s)].forms)
            /\ (stem(s) # s /\ stem(s) \notin stems_at_build) =>
                   SearchWord(tree, words, s) = <<>>

\* C3 witness: a stem of the build that stemming leaves unchanged was
\* searched and found.
C3_Witness ==
    /\ Len(query) = 1
    /\ query[1] \in stems_at_build
    /\ stem(query[1]) = query[1]
    /\ result.exc = "None"
    /\ result.value # <<>>

\* The paths that lead from the root to a node with a word.
TerminalPaths ==
    {p \in DOMAIN tree : Descend(tree, p, 1, root) = p /\ tree[p].word # NoWord}

\* C4: in a built tree every node is reached from the root by its path, the
\* paths ending at a node with a word are exactly the stems of the registry
\* at build time, the word at the end of path p is the Word of stem p, and a
\* lookup whose stemmed input is no such stem returns nothing.
C4_TerminalsAreStems ==
    tree # NoTree =>
        /\ \A p \in DOMAIN tree : Descend(tree, p, 1, root) = p
        /\ \A p \in DOMAIN tree \ {root} :
               /\ tree[p].parent = DropLast(p, 1)
               /\ tree[p].char = p[Len(p)]
        /\ TerminalPaths = stems_at_build
        /\ \A p \in TerminalPaths : tree[p].word = words[p].id
        /\ \A w \in LookupInputs :
               stem(w) \notin stems_at_build => SearchWord(tree, words, w) = <<>>

\* C4 witness: a tree over two stems with an inner node that ends no stem,
\* and a search for that prefix that returned nothing.
C4_Witness ==
    /\ tree # NoTree
    /\ Cardinality(stems_at_build) >= 2
    /\ Len(query) = 1
    /\ query[1] \in DOMAIN tree
    /\ query[1] # root
    /\ tree[query[1]].word = NoWord
    /\ result = Returned(<<>>)

\* What C5 says a phrase search returns.
PhraseOccurrences(w) == Range(SearchWord(tree, words, w))

PhraseExpected(q) ==
    IF \E k \in 1..Len(q) : SearchWord(tree, words, q[k]) = <<>> THEN {}
    ELSE {s \in 1..Len(sentences) :
              /\ \A k \in 1..Len(q) : s \in PhraseOccurrences(q[k])
              /\ is_next_to_each_other(q, sentences[s].text)}

\* C5 as claimed: a phrase search returns exactly the sentences that hold
\* every word of the phrase and hold the stemmed phrase as a contiguous run
\* in query order, and nothing when a word of the phrase is not found.
C5_PhraseSearch ==
    (Len(query) > 1 /\ result # NoCall) =>
        /\ result.exc = "None"
        /\ Range(result.value) = PhraseExpected(query)

\* C6 as claimed: without a rebuild every search returns after a step what
\* it returned before it.
C6_Original ==
    [][(tree # NoTree /\ tree' = tree) =>
          \A q \in Queries :
              search(tree', words', sentences', q) = search(tree, words, sentences, q)]_vars

SnapshotStep ==
    tree # NoTree =>
        /\ tree' = tree
        /\ \A w \in LookupInputs :
               LET before == SearchWord(tree, words, w)
                   after == SearchWord(tree', words', w)
               IN  /\ (before = <<>>) = (after = <<>>)
                   /\ Range(before) \subseteq Range(after)
                   /\ Len(before) <= Len(after)
        /\ \A s \in DOMAIN words' \ stems_at_build :
               \A p \in DOMAIN tree' : tree'[p].word # words'[s].id

\* C6 amended: a built tree is a snapshot of the stems, not of their
\* occurrences: no later step changes a node, a lookup finds a Word after the
\* step exactly if it found one before, no node refers to a Word whose stem
\* was registered after the build, and the sentences returned for a found
\* Word keep those returned before and may gain those ingested since.
C6_SnapshotOfStems == [][SnapshotStep]_vars

\* C6 witness: a word whose stem was registered after the build was searched
\* and not found.
C6_Witness ==
    /\ tree # NoTree
    /\ Len(query) = 1
    /\ stem(query[1]) \in DOMAIN words \ stems_at_build
    /\ result = Returned(<<>>)

\* The sentences of form entries fs, all forms together.
ViewSentences(fs) == UNION {Range(fs[j].sentences) : j \in 1..Len(fs)}

\* C7 as claimed: when a Word occurs in two Article objects of equal title
\* and authors and different text, Word.articles puts the sentences of both
\* under one key.
C7_ArticleIdentity ==
    Idle =>
        \A s \in DOMAIN words :
            LET view == Articles(articles, sentences, words[s])
                occ == {sentences[x].article : x \in Range(Flatten(words[s].forms))}
            IN  \A a, b \in occ :
                    (/\ a # b
                     /\ articles[a].title = articles[b].title
                     /\ articles[a].authors = articles[b].authors
                     /\ articles[a].text # articles[b].text)
                    => /\ view.exc = "None"
                       /\ \E k \in 1..Len(view.value) :
                              {a, b} \subseteq
                                  {sentences[x].article :
                                       x \in ViewSentences(view.value[k].forms)}

\* C8 as claimed: a single-word search returns no sentence twice.
C8_EachSentenceOnce ==
    (Len(query) = 1 /\ result.exc = "None") => NoDuplicates(result.value)

\* C9 as claimed: for every Word, the view has one key per article the Word
\* occurs in, and under every key and form the list holds no sentence twice
\* and holds exactly the sentences of forms[form] that belong to that article.
C9_NoDoubleCount ==
    Idle =>
        \A s \in DOMAIN words :
            LET view == Articles(articles, sentences, words[s])
            IN  /\ view.exc = "None"
                /\ \A k \in 1..Len(view.value) :
                       \A j \in 1..Len(view.value[k].forms) :
                           LET e == view.value[k].forms[j]
                           IN  /\ NoDuplicates(e.sentences)
                               /\ Range(e.sentences) =
                                      {x \in Range(FormGet(words[s].forms, e.form)) :
                                           sentences[x].article = view.value[k].article}
                /\ \A x \in Range(Flatten(words[s].forms)) :
                       \E k \in 1..Len(view.value) :
                           view.value[k].article = sentences[x].article

\* C10 as claimed: one turn of the loop handles one command and reaches the
\* next prompt: `up' moves to the parent, or at the root stays and signals
\* it; a character moves to that child, or signals that there is none and
\* stays; `exit' ends the traversal.
C10_OneStepPerCommand ==
    [][tpc = "loop" =>
          IF char = "exit" THEN tpc' = "done"
          ELSE IF char = "up"
          THEN /\ tpc' = "input"
               /\ current_node' = IF current_node = root THEN root
                                  ELSE tree[current_node].parent
               /\ (current_node = root) => signal' = "At root node."
          ELSE IF char \in Range(tree[current_node].children)
          THEN tpc' = "input" /\ current_node' = Append(current_node, char)
          ELSE /\ tpc' = "input"
               /\ current_node' = current_node
               /\ signal' = "Not found."]_vars

====
